---- MODULE Spec2Model ----
(***************************************************************************)
(* Model of utils/nmn_datasets.py: the Node label remapping over a         *)
(* hierarchy tree, the taxonomy index (get_wnid_to_node / get_nodes), the  *)
(* path-sanity weights and the label-subset dataset views.                 *)
(*                                                                         *)
(* Encoding.                                                               *)
(*   - A hierarchy is the parsed XML tree: vertices 1..n numbered in       *)
(*     document order (vertex 1 is the root element), parent[v] the parent *)
(*     (0 for the root), wnid[v] the 'wnid' attribute.  Every element is a *)
(*     synset element; identifiers are unique within a tree.               *)
(*   - A wnid is a string of digit characters, written as the sequence of  *)
(*     its digits; None (attribute absent) is the empty sequence.          *)
(*   - A class name is a string, written as the sequence of its            *)
(*     characters (one-character strings).                                 *)
(*   - Old indices are 0-based as in the code; Python lists are TLA+       *)
(*     sequences, so list position i is sequence position i + 1.           *)
(*   - Optional values (None or a value) are sequences of length <= 1.     *)
(*   - A probability is a fraction <<num, den>> in lowest terms.           *)
(***************************************************************************)
EXTENDS Integers, Sequences, FiniteSets, TLC

VARIABLES
    tree,        \* the hierarchy file (path_tree), parsed
    wnids,       \* the flat class list (path_wnids), one wnid per line
    classes,     \* dataset.classes, index-aligned with wnids
    node,        \* the Node under construction / use: <<>> or <<Node>>
    err,         \* the exception that ended the last operation, or NoError
    op,          \* the last operation performed: <<name, argument...>>
    ret,         \* the value returned by the last read: <<>> or <<value>>
    nodes,       \* the result of Node.get_nodes: <<>> or <<sequence of Node>>
    weights,     \* the result of PathSanityDataset.get_weights: <<>> or <<matrix>>
    labels,      \* the underlying dataset of a view: the label of each sample
    view,        \* the label-subset view under use: <<>> or <<view>>
    scans,       \* how many times the underlying dataset has been iterated
    touched      \* history: the Node attributes accessed so far, as
                 \* "probabilities set" and "class_weights read or set"

vars == <<tree, wnids, classes, node, err, op, ret, nodes, weights, labels,
          view, scans, touched>>

----------------------------------------------------------------------------
(* Bounds *)

MaxVertices == 5
MaxK == 3
MaxItems == 3
MaxCap == 2

----------------------------------------------------------------------------
(* Generic helpers *)

None == <<>>

Some(x) == <<x>>

Min(S) == CHOOSE x \in S : \A y \in S : x <= y

Max1(S) == CHOOSE x \in S : \A y \in S : x >= y

Range(s) == {s[i] : i \in DOMAIN s}

RECURSIVE SortedSeq(_)
SortedSeq(S) ==
    IF S = {} THEN <<>> ELSE <<Min(S)>> \o SortedSeq(S \ {Min(S)})

RECURSIVE Concat(_)
Concat(ss) ==
    IF ss = <<>> THEN <<>> ELSE Head(ss) \o Concat(Tail(ss))

RECURSIVE Sum(_)
Sum(s) == IF s = <<>> THEN 0 ELSE Head(s) + Sum(Tail(s))

RECURSIVE Gcd(_, _)
Gcd(a, b) == IF b = 0 THEN a ELSE Gcd(b, a % b)

\* list.index(x): position of the first occurrence, 0-based
Index(s, x) == Min({i \in DOMAIN s : s[i] = x}) - 1

NoError == [type |-> "none", msg |-> ""]

Raise(t, m) == [type |-> t, msg |-> m]

----------------------------------------------------------------------------
(* The hierarchy tree (xml.etree.ElementTree) and the input domains *)

\* the identifiers a hierarchy and a class list draw from: "1", "12", "2"
WnidSet == {<<1>>, <<1, 2>>, <<2>>}

RECURSIVE IsAncOrSelf(_, _, _)
IsAncOrSelf(p, a, v) ==
    IF v = a THEN TRUE
    ELSE IF v = 0 THEN FALSE
    ELSE IsAncOrSelf(p, a, p[v])

\* parent arrays of the ordered trees on 1..n, numbered in document order
ParentArrays(n) ==
    {p \in [1..n -> 0..(n - 1)] :
        /\ p[1] = 0
        /\ \A v \in 2..n : p[v] >= 1 /\ p[v] < v /\ IsAncOrSelf(p, p[v], v - 1)}

\* each vertex optionally carries an identifier, unique within the tree
WnidAssignments(n) ==
    {w \in [1..n -> WnidSet \cup {None}] :
        \A u, v \in 1..n : (u # v /\ w[u] # None) => w[u] # w[v]}

Trees ==
    UNION {{[n |-> n, parent |-> p, wnid |-> w] :
                p \in ParentArrays(n), w \in WnidAssignments(n)} :
           n \in 1..MaxVertices}

\* flat class lists: one identifier per line, no identifier twice
WnidLists ==
    UNION {{s \in [1..k -> WnidSet] :
                \A i, j \in 1..k : i # j => s[i] # s[j]} : k \in 0..MaxK}

\* class-name lists of a source with K classes, no name twice: plain names
\* "a", "b", "c", or the names "a,x" (it holds a comma), "" (empty) and "c"
PlainNames == <<<<"a">>, <<"b">>, <<"c">>, <<"d">>>>

MixedNames == <<<<"a", ",", "x">>, <<>>, <<"c">>, <<"d">>>>

ClassLists(K) == {SubSeq(scheme, 1, K) : scheme \in {PlainNames, MixedNames}}

\* Element.getchildren(): the children in document order
getchildren(t, v) == SortedSeq({u \in 1..t.n : t.parent[u] = v})

\* Element.iter(): the element and its descendants in document order
iter(t, v) == SortedSeq({u \in 1..t.n : IsAncOrSelf(t.parent, v, u)})

\* utils.xmlutils.get_leaves: every element of the subtree without children
get_leaves(t, v) ==
    SelectSeq(iter(t, v), LAMBDA u : Len(getchildren(t, u)) = 0)

\* tree.find('.//synset[@wnid="..."]'): the first element below the root, in
\* document order, with that wnid; 0 stands for None
find(t, wnid) ==
    LET M == {v \in 2..t.n : t.wnid[v] = wnid}
    IN  IF M = {} THEN 0 ELSE Min(M)

----------------------------------------------------------------------------
(* Node.__init__ *)

\* the (wnid, new_index) pairs visited by the two nested loops, in order
LeafPairs(t, children) ==
    Concat([i \in 1..Len(children) |->
              LET leaves == get_leaves(t, children[i])
              IN  [j \in 1..Len(leaves) |-> <<t.wnid[leaves[j]], i - 1>>]])

\* self.mapping[old_index] = new_index, for each pair in turn
RECURSIVE AssignLeaves(_, _, _)
AssignLeaves(m, pairs, wl) ==
    IF pairs = <<>> THEN m
    ELSE LET old_index == Index(wl, Head(pairs)[1])
             new_index == Head(pairs)[2]
         IN  AssignLeaves([o \in DOMAIN m \cup {old_index} |->
                              IF o = old_index THEN new_index ELSE m[o]],
                          Tail(pairs), wl)

\* old indices left unassigned go to the "other" bucket n
FillOther(m, K, n) ==
    [o \in DOMAIN m \cup 0..(K - 1) |-> IF o \in DOMAIN m THEN m[o] ELSE n]

\* mutant: the "other" class is never counted
NumClassesNoOther(m, K, n) == n

NumClasses(m, K, n) == IF Cardinality(DOMAIN m) < K THEN n + 1 ELSE n

\* self.new_to_old[new_index].append(old_index), for old_index = old .. K - 1
RECURSIVE GroupOld(_, _, _, _)
GroupOld(acc, mapping, old, K) ==
    IF old >= K THEN acc
    ELSE GroupOld([acc EXCEPT ![mapping[old] + 1] = Append(@, old)],
                  mapping, old + 1, K)

NewToOld(mapping, K, num_classes) ==
    GroupOld([i \in 1..num_classes |-> <<>>], mapping, 0, K)

\* ','.join(names)
RECURSIVE Join(_)
Join(names) ==
    IF names = <<>> THEN <<>>
    ELSE IF Len(names) = 1 THEN Head(names)
    ELSE Head(names) \o <<",">> \o Join(Tail(names))

\* self.classes: the joined names of each new class, [] without class names
NodeClasses(cls, new_to_old) ==
    IF cls = <<>> THEN <<>>
    ELSE [i \in 1..Len(new_to_old) |->
            Join([j \in 1..Len(new_to_old[i]) |-> cls[new_to_old[i][j] + 1]])]

\* Node(wnid, path_tree, path_wnids, classes): [err, node]; node is None when
\* the constructor raised
NodeInit(wnid, t, wl, cls) ==
    LET K        == Len(wl)
        v        == find(t, wnid)
        children == IF v = 0 THEN <<>> ELSE getchildren(t, v)
        n        == Len(children)
        pairs    == LeafPairs(t, children)
    IN  IF v = 0 THEN
            [err |-> Raise("AssertionError", "Failed to find node with wnid"),
             node |-> None]
        ELSE IF ~(n > 0) THEN
            [err |-> Raise("AssertionError", "Cannot build dataset for leaf node."),
             node |-> None]
        ELSE IF \E i \in DOMAIN pairs : pairs[i][1] \notin Range(wl) THEN
            [err |-> Raise("ValueError", "is not in list"), node |-> None]
        ELSE
            LET assigned    == AssignLeaves(<<>>, pairs, wl)
                num_classes == NumClasses(assigned, K, n)
                mapping     == FillOther(assigned, K, n)
                new_to_old  == NewToOld(mapping, K, num_classes)
            IN  [err |-> NoError,
                 node |-> Some(
                    [wnid                 |-> wnid,
                     original_classes     |-> cls,
                     num_original_classes |-> K,
                     mapping              |-> mapping,
                     num_children         |-> n,
                     num_classes          |-> num_classes,
                     new_to_old           |-> new_to_old,
                     classes              |-> NodeClasses(cls, new_to_old),
                     _probabilities       |-> None,
                     _class_weights       |-> None,
                     children_wnids       |-> [i \in 1..n |-> t.wnid[children[i]]]])]

----------------------------------------------------------------------------
(* Node.class_counts, Node.probabilities, Node.class_weights *)

class_counts(nd) == [i \in 1..Len(nd.new_to_old) |-> Len(nd.new_to_old[i])]

\* min(1, reference / count) as a fraction in lowest terms
Ratio(reference, count) ==
    IF reference >= count THEN <<1, 1>>
    ELSE <<reference \div Gcd(reference, count), count \div Gcd(reference, count)>>

\* mutant: the reference is the largest class count
DerivedProbabilitiesMaxReference(nd) ==
    LET reference == -Min({-c : c \in Range(class_counts(nd))})
    IN  [i \in 1..Len(nd.new_to_old) |-> Ratio(reference, Len(nd.new_to_old[i]))]

\* the tensor the getter derives; raises ZeroDivisionError on an empty class
DerivedProbabilities(nd) ==
    LET reference == Min(Range(class_counts(nd)))
    IN  [i \in 1..Len(nd.new_to_old) |-> Ratio(reference, Len(nd.new_to_old[i]))]

DerivationRaises(nd) == \E i \in 1..Len(nd.new_to_old) : Len(nd.new_to_old[i]) = 0

\* the property getter: [node, ret]; fills the cache when it is None
GetProbabilities(nd) ==
    IF nd._probabilities = None
    THEN [node |-> [nd EXCEPT !._probabilities = Some(DerivedProbabilities(nd))],
          ret  |-> DerivedProbabilities(nd)]
    ELSE [node |-> nd, ret |-> nd._probabilities[1]]

\* mutant: the getter of class_weights does not keep what it returns
GetClassWeightsUncached(nd) ==
    IF nd._class_weights = None
    THEN GetProbabilities(nd)
    ELSE [node |-> nd, ret |-> nd._class_weights[1]]

GetClassWeights(nd) ==
    IF nd._class_weights = None
    THEN LET g == GetProbabilities(nd)
         IN  [node |-> [g.node EXCEPT !._class_weights = Some(g.ret)],
              ret  |-> g.ret]
    ELSE [node |-> nd, ret |-> nd._class_weights[1]]

\* the tensors a caller assigns through the setters: every class at 1/2,
\* which no derived tensor equals
Tensors(opt) ==
    IF opt = None THEN {}
    ELSE {[i \in 1..opt[1].num_classes |-> <<1, 2>>]}

----------------------------------------------------------------------------
(* Specifications of one Node: SpecNode is the construction alone, SpecCache
   the construction followed by reads and sets of the two cached attributes *)

InitInputs ==
    /\ tree \in Trees
    /\ wnids \in WnidLists
    /\ node = None
    /\ err = NoError
    /\ op = <<"start">>
    /\ ret = None
    /\ nodes = None
    /\ weights = None
    /\ labels = <<>>
    /\ view = None
    /\ scans = 0
    /\ touched = {}

InitNode ==
    /\ InitInputs
    /\ classes = SubSeq(PlainNames, 1, Len(wnids))

NewNode(wnid) ==
    /\ op = <<"start">>
    /\ LET r == NodeInit(wnid, tree, wnids, classes)
       IN  /\ node' = r.node
           /\ err' = r.err
    /\ op' = <<"Node", wnid>>
    /\ UNCHANGED <<tree, wnids, classes, ret, nodes, weights, labels, view, scans,
                   touched>>

ReadProbabilities ==
    /\ node # None
    /\ IF node[1]._probabilities = None /\ DerivationRaises(node[1])
       THEN /\ err' = Raise("ZeroDivisionError", "division by zero")
            /\ UNCHANGED <<node, ret>>
       ELSE /\ node' = Some(GetProbabilities(node[1]).node)
            /\ ret' = Some(GetProbabilities(node[1]).ret)
            /\ err' = NoError
    /\ op' = <<"get probabilities">>
    /\ UNCHANGED <<tree, wnids, classes, nodes, weights, labels, view, scans,
                   touched>>

SetProbabilities(x) ==
    /\ node # None
    /\ node' = Some([node[1] EXCEPT !._probabilities = Some(x)])
    /\ op' = <<"set probabilities">>
    /\ err' = NoError
    /\ touched' = touched \cup {"probabilities set"}
    /\ UNCHANGED <<tree, wnids, classes, ret, nodes, weights, labels, view, scans>>

ReadClassWeights ==
    /\ node # None
    /\ IF /\ node[1]._class_weights = None
          /\ node[1]._probabilities = None
          /\ DerivationRaises(node[1])
       THEN /\ err' = Raise("ZeroDivisionError", "division by zero")
            /\ UNCHANGED <<node, ret>>
       ELSE /\ node' = Some(GetClassWeights(node[1]).node)
            /\ ret' = Some(GetClassWeights(node[1]).ret)
            /\ err' = NoError
    /\ op' = <<"get class_weights">>
    /\ touched' = touched \cup {"class_weights read or set"}
    /\ UNCHANGED <<tree, wnids, classes, nodes, weights, labels, view, scans>>

SetClassWeights(x) ==
    /\ node # None
    /\ node' = Some([node[1] EXCEPT !._class_weights = Some(x)])
    /\ op' = <<"set class_weights">>
    /\ err' = NoError
    /\ touched' = touched \cup {"class_weights read or set"}
    /\ UNCHANGED <<tree, wnids, classes, ret, nodes, weights, labels, view, scans>>

NextNode == \E wnid \in WnidSet : NewNode(wnid)

SpecNode == InitNode /\ [][NextNode]_vars

NextCache ==
    \/ \E wnid \in WnidSet : NewNode(wnid)
    \/ ReadProbabilities
    \/ \E x \in Tensors(node) : SetProbabilities(x)
    \/ ReadClassWeights
    \/ \E x \in Tensors(node) : SetClassWeights(x)

SpecCache == InitNode /\ [][NextCache]_vars

----------------------------------------------------------------------------
(* Node.get_wnid_to_node, Node.get_nodes, Node.dim *)

\* a < b for Python strings of digit characters
RECURSIVE StrLess(_, _)
StrLess(a, b) ==
    IF b = <<>> THEN FALSE
    ELSE IF a = <<>> THEN TRUE
    ELSE IF Head(a) # Head(b) THEN Head(a) < Head(b)
    ELSE StrLess(Tail(a), Tail(b))

\* sorted(keys)
RECURSIVE sorted(_)
sorted(S) ==
    IF S = {} THEN <<>>
    ELSE LET least == CHOOSE x \in S : \A y \in S \ {x} : StrLess(x, y)
         IN  <<least>> \o sorted(S \ {least})

\* the elements get_wnid_to_node builds a Node for, in tree.iter() order
Candidates(t) ==
    SelectSeq(iter(t, 1),
              LAMBDA v : ~(t.wnid[v] = None \/ Len(getchildren(t, v)) = 0))

\* Node.get_wnid_to_node: [err, dict]; dict maps each key to its Node
get_wnid_to_node(t, wl, cls) ==
    LET cand   == Candidates(t)
        built  == [i \in 1..Len(cand) |-> NodeInit(t.wnid[cand[i]], t, wl, cls)]
        failed == {i \in 1..Len(cand) : built[i].node = None}
    IN  IF failed # {}
        THEN [err |-> built[Min(failed)].err, dict |-> <<>>]
        ELSE [err |-> NoError,
              dict |-> [w \in {t.wnid[cand[i]] : i \in 1..Len(cand)} |->
                          built[Max1({i \in 1..Len(cand) : t.wnid[cand[i]] = w})].node[1]]]

\* Node.get_nodes: [err, nodes]
get_nodes(t, wl, cls) ==
    LET r == get_wnid_to_node(t, wl, cls)
    IN  IF r.err # NoError THEN [err |-> r.err, nodes |-> None]
        ELSE LET keys == sorted(DOMAIN r.dict)
             IN  [err |-> NoError,
                  nodes |-> Some([i \in 1..Len(keys) |-> r.dict[keys[i]]])]

\* Node.dim
dim(nds) == Sum([i \in 1..Len(nds) |-> nds[i].num_classes])

----------------------------------------------------------------------------
(* PathSanityDataset *)

HasComma(name) == \E i \in DOMAIN name : name[i] = ","

\* mutant: the test for a single-class name is dropped
get_node_weights_no_leaf_test(nd, dataset_classes) ==
    LET n == nd.num_classes
        k == Len(dataset_classes)
    IN  [new \in 1..n |-> [old \in 1..k |->
            IF new <= Len(nd.classes) /\ nd.new_to_old[new][1] = old - 1
            THEN 1 ELSE 0]]

\* _get_node_weights: the n x k matrix A of one node, as a sequence of rows
get_node_weights(nd, dataset_classes) ==
    LET n == nd.num_classes
        k == Len(dataset_classes)
    IN  [new \in 1..n |-> [old \in 1..k |->
            IF /\ new <= Len(nd.classes)
               /\ ~HasComma(nd.classes[new])
               /\ nd.classes[new] # <<>>
               /\ Index(nd.original_classes, nd.classes[new]) = old - 1
            THEN 1 ELSE 0]]

\* numpy .T of a matrix with k columns
Transpose(A, k) == [c \in 1..k |-> [r \in 1..Len(A) |-> A[r][c]]]

\* get_weights: [err, weights]; np.concatenate raises on an empty list
get_weights(nds, dataset_classes) ==
    IF nds = <<>>
    THEN [err |-> Raise("ValueError", "need at least one array to concatenate"),
          weights |-> None]
    ELSE [err |-> NoError,
          weights |-> Some(Transpose(
              Concat([i \in 1..Len(nds) |-> get_node_weights(nds[i], dataset_classes)]),
              Len(dataset_classes)))]

----------------------------------------------------------------------------
(* Specification of the taxonomy index under a Path-Sanity view: the view is
   built over the whole hierarchy, then its weights are derived *)

InitTax ==
    /\ InitInputs
    /\ classes \in ClassLists(Len(wnids))

\* PathSanityDataset.__init__: self.nodes = Node.get_nodes(...)
NewPathSanityDataset ==
    /\ op = <<"start">>
    /\ LET r == get_nodes(tree, wnids, classes)
       IN  /\ nodes' = r.nodes
           /\ err' = r.err
    /\ op' = <<"get_nodes">>
    /\ UNCHANGED <<tree, wnids, classes, node, ret, weights, labels, view, scans,
                   touched>>

\* PathSanityDataset.get_weights
GetWeights ==
    /\ nodes # None
    /\ op = <<"get_nodes">>
    /\ LET r == get_weights(nodes[1], classes)
       IN  /\ weights' = r.weights
           /\ err' = r.err
    /\ op' = <<"get_weights">>
    /\ UNCHANGED <<tree, wnids, classes, node, ret, nodes, labels, view, scans,
                   touched>>

NextTax == NewPathSanityDataset \/ GetWeights

SpecTax == InitTax /\ [][NextTax]_vars

----------------------------------------------------------------------------
(* IncludeLabelsDataset, IncludeClassesDataset, ExcludeLabelsDataset *)

\* the underlying dataset: item old is (sample old, label of sample old)
Item(ds, old) == <<old, ds[old + 1]>>

\* lst[:c]
Prefix(lst, c) ==
    IF c >= 0 THEN SubSeq(lst, 1, IF c < Len(lst) THEN c ELSE Len(lst))
    ELSE SubSeq(lst, 1, IF Len(lst) + c > 0 THEN Len(lst) + c ELSE 0)

\* build_index_mapping: one pass over the dataset, then the truncation
build_index_mapping(ds, include_labels, num_samples) ==
    LET olds       == [i \in 1..Len(ds) |-> i - 1]
        new_to_old == SelectSeq(olds, LAMBDA old : Item(ds, old)[2] \in include_labels)
    IN  IF num_samples # 0 THEN Prefix(new_to_old, num_samples) ELSE new_to_old

\* mutant: the emptiness check comes after the index is built
IncludeLabelsInitLateCheck(ds, include_labels, num_samples) ==
    IF include_labels = {}
    THEN [err |-> Raise("AssertionError", "No labels are included in include_labels"),
          view |-> None, scanned |-> 1]
    ELSE [err |-> NoError,
          view |-> Some([include_labels |-> include_labels,
                         num_samples    |-> num_samples,
                         new_to_old     |-> build_index_mapping(ds, include_labels,
                                                                num_samples)]),
          scanned |-> 1]

\* IncludeLabelsDataset.__init__: [err, view, scanned]
IncludeLabelsInit(ds, include_labels, num_samples) ==
    IF include_labels = {}
    THEN [err |-> Raise("AssertionError", "No labels are included in include_labels"),
          view |-> None, scanned |-> 0]
    ELSE [err |-> NoError,
          view |-> Some([include_labels |-> include_labels,
                         num_samples    |-> num_samples,
                         new_to_old     |-> build_index_mapping(ds, include_labels,
                                                                num_samples)]),
          scanned |-> 1]

\* IncludeClassesDataset.__init__: dataset.classes.index(cls) for each name
IncludeClassesInit(ds, dataset_classes, include_classes, num_samples) ==
    IF \E cls \in include_classes : cls \notin Range(dataset_classes)
    THEN [err |-> Raise("ValueError", "is not in list"), view |-> None, scanned |-> 0]
    ELSE IncludeLabelsInit(ds,
                           {Index(dataset_classes, cls) : cls \in include_classes},
                           num_samples)

\* mutant: the labels to keep are counted from 1
ExcludeLabelsInitOffByOne(ds, dataset_classes, exclude_labels, num_samples) ==
    LET k == Len(dataset_classes)
    IN  IncludeLabelsInit(ds, 1..k \ exclude_labels, num_samples)

\* ExcludeLabelsDataset.__init__
ExcludeLabelsInit(ds, dataset_classes, exclude_labels, num_samples) ==
    LET k == Len(dataset_classes)
    IN  IncludeLabelsInit(ds, 0..(k - 1) \ exclude_labels, num_samples)

----------------------------------------------------------------------------
(* Specification of a label-subset view over a dataset with K classes *)

\* the datasets with K classes and at most MaxItems samples
Datasets(K) == UNION {[1..m -> 0..(K - 1)] : m \in 0..MaxItems}

\* label sets, caps and class-name sets a caller passes
LabelSets == SUBSET (0..(MaxK - 1))

Caps == -1..MaxCap

NameSets == SUBSET (Range(SubSeq(PlainNames, 1, MaxK)) \cup {<<"z">>})

InitView ==
    /\ tree = [n |-> 1, parent |-> <<0>>, wnid |-> <<None>>]
    /\ wnids = <<>>
    /\ \E K \in 0..MaxK :
          /\ classes = SubSeq(PlainNames, 1, K)
          /\ labels \in Datasets(K)
    /\ node = None
    /\ err = NoError
    /\ op = <<"start">>
    /\ ret = None
    /\ nodes = None
    /\ weights = None
    /\ view = None
    /\ scans = 0
    /\ touched = {}

Built(r, name, arg, num_samples) ==
    /\ view' = r.view
    /\ err' = r.err
    /\ scans' = scans + r.scanned
    /\ op' = <<name, arg, num_samples>>
    /\ UNCHANGED <<tree, wnids, classes, node, ret, nodes, weights, labels, touched>>

NewIncludeLabels(include_labels, num_samples) ==
    /\ op = <<"start">>
    /\ Built(IncludeLabelsInit(labels, include_labels, num_samples),
             "IncludeLabelsDataset", include_labels, num_samples)

NewIncludeClasses(include_classes, num_samples) ==
    /\ op = <<"start">>
    /\ Built(IncludeClassesInit(labels, classes, include_classes, num_samples),
             "IncludeClassesDataset", include_classes, num_samples)

NewExcludeLabels(exclude_labels, num_samples) ==
    /\ op = <<"start">>
    /\ Built(ExcludeLabelsInit(labels, classes, exclude_labels, num_samples),
             "ExcludeLabelsDataset", exclude_labels, num_samples)

\* IncludeLabelsDataset.__getitem__: the body reads the name new_to_old, which
\* is neither a local nor a module-level name, so every call raises NameError
GetItem(new_) ==
    /\ view # None
    /\ err' = Raise("NameError", "name new_to_old is not defined")
    /\ op' = <<"__getitem__", new_>>
    /\ UNCHANGED <<tree, wnids, classes, node, ret, nodes, weights, labels, view,
                   scans, touched>>

\* IncludeLabelsDataset.__len__
GetLen ==
    /\ view # None
    /\ ret' = Some(Len(view[1].new_to_old))
    /\ err' = NoError
    /\ op' = <<"__len__">>
    /\ UNCHANGED <<tree, wnids, classes, node, nodes, weights, labels, view, scans,
                   touched>>

NextView ==
    \/ \E S \in LabelSets, c \in Caps : NewIncludeLabels(S, c)
    \/ \E N \in NameSets, c \in Caps : NewIncludeClasses(N, c)
    \/ \E E \in LabelSets, c \in Caps : NewExcludeLabels(E, c)
    \/ \E j \in 0..(MaxItems - 1) : GetItem(j)
    \/ GetLen

SpecView == InitView /\ [][NextView]_vars

----------------------------------------------------------------------------
(* Vocabulary of the properties, stated on the hierarchy itself *)

HasChild(t, v) == \E u \in 1..t.n : t.parent[u] = v

\* the leaves strictly below v
LeavesBelow(t, v) ==
    {u \in 1..t.n : u # v /\ IsAncOrSelf(t.parent, v, u) /\ ~HasChild(t, u)}

\* the vertex a built Node stands for (identifiers are unique)
VertexOf(nd) == CHOOSE v \in 1..tree.n : tree.wnid[v] = nd.wnid

OldIndices == 0..(Len(wnids) - 1)

\* the old indices whose identifier is a leaf below v
Covered(v) ==
    {o \in OldIndices : \E u \in LeavesBelow(tree, v) : tree.wnid[u] = wnids[o + 1]}

\* the vertex requested by the last Node(...) call, when the hierarchy has it
Requested(v) == op = <<"Node", tree.wnid[v]>> /\ tree.wnid[v] # None

MappingTotal(nd) ==
    /\ DOMAIN nd.mapping = OldIndices
    /\ \A o \in OldIndices : nd.mapping[o] \in 0..(nd.num_classes - 1)

----------------------------------------------------------------------------
(* C1 *)

\* C1 (as claimed): for every vertex v with at least one child and every flat
\* class list that holds all leaf identifiers under v, Node(v) is built and its
\* mapping is defined exactly on [0, K) with every value in [0, num_classes).
\* Violated: the root element is never matched by find, so Node(root) raises.
C1_MappingTotalEveryVertex ==
    \A v \in 1..tree.n :
        (/\ Requested(v)
         /\ HasChild(tree, v)
         /\ \A u \in LeavesBelow(tree, v) : tree.wnid[u] \in Range(wnids))
        => (node # None /\ MappingTotal(node[1]))

\* Supporting fact for C1: the same statement for every vertex below the root,
\* and the mapping of every Node that is built.
C1_BelowRoot ==
    /\ \A v \in 2..tree.n :
        (/\ Requested(v)
         /\ HasChild(tree, v)
         /\ \A u \in LeavesBelow(tree, v) : tree.wnid[u] \in Range(wnids))
        => (node # None /\ MappingTotal(node[1]))
    /\ node # None => MappingTotal(node[1])

----------------------------------------------------------------------------
(* C2 *)

\* C2: for every Node, if every flat label is a leaf under some child of the
\* vertex then num_classes = num_children and nothing maps to num_children;
\* otherwise num_classes = num_children + 1 and exactly the uncovered old
\* indices (at least one) map to num_children.
C2_OtherBucket ==
    node # None =>
        LET nd    == node[1]
            v     == VertexOf(nd)
            other == {o \in OldIndices : nd.mapping[o] = nd.num_children}
        IN  /\ nd.num_children = Cardinality({u \in 1..tree.n : tree.parent[u] = v})
            /\ IF Covered(v) = OldIndices
               THEN nd.num_classes = nd.num_children /\ other = {}
               ELSE /\ nd.num_classes = nd.num_children + 1
                    /\ other # {}
                    /\ other = OldIndices \ Covered(v)

\* C2 witness: a Node with two children and a non-empty "other" bucket
C2_Witness ==
    /\ node # None
    /\ node[1].num_children = 2
    /\ node[1].num_classes = 3
    /\ \E o \in OldIndices : node[1].mapping[o] = 2

----------------------------------------------------------------------------
(* C3 *)

\* the fraction f equals min(1, m / c)
IsMinOneOf(f, m, c) == IF m >= c THEN f[1] = f[2] ELSE f[1] * c = f[2] * m

\* C3: on a Node whose probabilities were never set, no class count is 0 and a
\* read of probabilities raises nothing and returns, for each new class i,
\* min(1, min(class_counts) / class_counts[i]): every entry is in (0, 1] and
\* the entry of every class of minimal count is exactly 1.
C3_Probabilities ==
    node # None =>
        LET nd     == node[1]
            counts == [i \in 1..nd.num_classes |->
                         Cardinality({o \in OldIndices : nd.mapping[o] = i - 1})]
            least  == Min(Range(counts))
        IN  /\ class_counts(nd) = counts
            /\ \A i \in 1..nd.num_classes : counts[i] > 0
            /\ (op = <<"get probabilities">> /\ "probabilities set" \notin touched)
               => /\ err = NoError
                  /\ ret # None
                  /\ DOMAIN ret[1] = 1..nd.num_classes
                  /\ \A i \in 1..nd.num_classes :
                        /\ IsMinOneOf(ret[1][i], least, counts[i])
                        /\ 0 < ret[1][i][1] /\ ret[1][i][1] <= ret[1][i][2]
                        /\ counts[i] = least => ret[1][i] = <<1, 1>>

\* C3 witness: probabilities read, never set, on a Node with unequal class
\* counts, so that some entry is below 1
C3_Witness ==
    /\ node # None
    /\ op = <<"get probabilities">>
    /\ "probabilities set" \notin touched
    /\ ret # None
    /\ \E i, j \in DOMAIN ret[1] : ret[1][i] = <<1, 2>> /\ ret[1][j] = <<1, 1>>

----------------------------------------------------------------------------
(* C8 *)

\* the three failure cases of the last Node(...) call
CaseAbsent == op[1] = "Node" /\ \A v \in 1..tree.n : tree.wnid[v] # op[2]

CaseNoChildren ==
    /\ op[1] = "Node"
    /\ \E v \in 2..tree.n : tree.wnid[v] = op[2] /\ ~HasChild(tree, v)

CaseUnknownLeaf ==
    /\ op[1] = "Node"
    /\ \E v \in 2..tree.n :
          /\ tree.wnid[v] = op[2]
          /\ \E u \in LeavesBelow(tree, v) : tree.wnid[u] \notin Range(wnids)

\* the error kind each case is reported with, on a two-vertex and a
\* three-vertex hierarchy
KindAbsent ==
    NodeInit(<<2>>, [n |-> 2, parent |-> <<0, 1>>, wnid |-> <<None, <<1>>>>],
             <<<<1>>>>, <<>>).err.type

KindNoChildren ==
    NodeInit(<<1>>, [n |-> 2, parent |-> <<0, 1>>, wnid |-> <<None, <<1>>>>],
             <<<<1>>>>, <<>>).err.type

KindUnknownLeaf ==
    NodeInit(<<1>>, [n |-> 3, parent |-> <<0, 1, 2>>, wnid |-> <<None, <<1>>, <<2>>>>],
             <<<<1>>>>, <<>>).err.type

\* C8 (as claimed): each of the three cases ends the construction in an error
\* with no Node, and the three cases are reported as distinct error kinds.
\* Violated: an absent identifier and a childless vertex both raise
\* AssertionError.
C8_DistinctErrorKinds ==
    /\ CaseAbsent => (node = None /\ err.type = KindAbsent)
    /\ CaseNoChildren => (node = None /\ err.type = KindNoChildren)
    /\ CaseUnknownLeaf => (node = None /\ err.type = KindUnknownLeaf)
    /\ (CaseAbsent \/ CaseNoChildren \/ CaseUnknownLeaf)
       => Cardinality({KindAbsent, KindNoChildren, KindUnknownLeaf}) = 3

\* Supporting fact for C8: each case fails at construction, produces no Node,
\* and is told apart from the others by exception type and message together.
C8_FailsAtConstruction ==
    /\ CaseAbsent =>
          /\ node = None
          /\ err = Raise("AssertionError", "Failed to find node with wnid")
    /\ CaseNoChildren =>
          /\ node = None
          /\ err = Raise("AssertionError", "Cannot build dataset for leaf node.")
    /\ CaseUnknownLeaf => (node = None /\ err.type = "ValueError")
    /\ node # None => err.type # "ValueError"

----------------------------------------------------------------------------
(* C10 *)

\* what a read of the attribute would return in the current state
ProbabilitiesValue(nd) == GetProbabilities(nd).ret

ClassWeightsValue(nd) == GetClassWeights(nd).ret

\* the fields of a Node other than the two caches
Structure(nd) ==
    <<nd.wnid, nd.mapping, nd.new_to_old, nd.num_children, nd.num_classes,
      class_counts(nd), nd.num_original_classes, nd.classes, nd.children_wnids>>

\* C10: on one Node, the value a read of probabilities returns changes only in
\* a step that sets probabilities; once class_weights has been read or set,
\* the value a read of class_weights returns changes only in a step that sets
\* class_weights; and no read or set changes mapping, new_to_old, num_classes
\* or class_counts.
C10_CachesFrozen ==
    [][(node # None /\ node' # None) =>
          /\ ProbabilitiesValue(node'[1]) # ProbabilitiesValue(node[1])
             => op' = <<"set probabilities">>
          /\ ("class_weights read or set" \in touched
              /\ ClassWeightsValue(node'[1]) # ClassWeightsValue(node[1]))
             => op' = <<"set class_weights">>
          /\ Structure(node'[1]) = Structure(node[1])
          /\ op' = <<"get probabilities">> => ret' = Some(ProbabilitiesValue(node[1]))
          /\ op' = <<"get class_weights">> => ret' = Some(ClassWeightsValue(node[1]))
      ]_vars

\* C10 witness: class_weights was read before probabilities was overridden, and
\* a later read of class_weights still returns the value derived first
C10_Witness ==
    /\ node # None
    /\ op = <<"get class_weights">>
    /\ touched = {"probabilities set", "class_weights read or set"}
    /\ node[1]._probabilities # None
    /\ ret = Some(DerivedProbabilities(node[1]))
    /\ ret # node[1]._probabilities

----------------------------------------------------------------------------
(* C4 *)

\* the vertices that carry an identifier and have at least one child
Qualifying == {v \in 1..tree.n : tree.wnid[v] # None /\ HasChild(tree, v)}

\* every leaf below a qualifying vertex is a class of the flat class list
LeavesKnown ==
    \A v \in Qualifying :
        \A u \in LeavesBelow(tree, v) : tree.wnid[u] \in Range(wnids)

\* the sequence holds one Node per qualifying vertex, in strictly ascending
\* order of identifier string, each equal to the Node built for that vertex
OneNodePerQualifying(nds) ==
    /\ Len(nds) = Cardinality(Qualifying)
    /\ {nds[i].wnid : i \in 1..Len(nds)} = {tree.wnid[v] : v \in Qualifying}
    /\ \A i \in 1..(Len(nds) - 1) : StrLess(nds[i].wnid, nds[i + 1].wnid)
    /\ \A i \in 1..Len(nds) :
          /\ VertexOf(nds[i]) \in Qualifying
          /\ MappingTotal(nds[i])
          /\ \A o \in Covered(VertexOf(nds[i])) :
                \E c \in 1..tree.n :
                    /\ tree.parent[c] = VertexOf(nds[i])
                    /\ nds[i].children_wnids[nds[i].mapping[o] + 1] = tree.wnid[c]
                    /\ \E u \in 1..tree.n :
                          /\ IsAncOrSelf(tree.parent, c, u)
                          /\ tree.wnid[u] = wnids[o + 1]

\* C4 (as claimed): on every hierarchy whose leaves are classes of the flat
\* class list, get_nodes succeeds and returns exactly one Node for each vertex
\* that carries an identifier and has at least one child, the top-most vertex
\* included, in strictly ascending order of identifier string.
\* Violated: when the root element itself qualifies, Node(root) raises and
\* get_nodes returns nothing.
C4_OneNodePerVertex ==
    (op = <<"get_nodes">> /\ LeavesKnown)
    => (err = NoError /\ nodes # None /\ OneNodePerQualifying(nodes[1]))

\* Supporting fact for C4: the statement holds whenever the root element does
\* not qualify, and get_nodes never returns a partial or unordered sequence.
C4_BelowRoot ==
    /\ (op = <<"get_nodes">> /\ LeavesKnown /\ 1 \notin Qualifying)
       => (err = NoError /\ nodes # None /\ OneNodePerQualifying(nodes[1]))
    /\ nodes # None => OneNodePerQualifying(nodes[1])
    /\ (op = <<"get_nodes">> /\ 1 \in Qualifying)
       => (nodes = None /\ err.type = "AssertionError")

----------------------------------------------------------------------------
(* C7 *)

\* a name _get_node_weights takes for the name of a single class
IsLeafName(name) == name # <<>> /\ ~HasComma(name)

\* the position of new class i of node j in the concatenation of all nodes
Position(nds, j, i) == dim(SubSeq(nds, 1, j - 1)) + i

----------------------------------------------------------------------------
(* Vocabulary of the view properties, stated on the dataset itself *)

\* the source indices, ascending, whose label is in S
Matching(S) == SortedSeq({old \in 0..(Len(labels) - 1) : labels[old + 1] \in S})

\* the kept-index list for label set S and cap c >= 0
Kept(S, c) ==
    IF c > 0 /\ c < Len(Matching(S)) THEN SubSeq(Matching(S), 1, c) ELSE Matching(S)

AllLabels == 0..(Len(classes) - 1)

\* the label set the last constructor call selects
EffectiveInclude ==
    IF op[1] = "IncludeLabelsDataset" THEN op[2]
    ELSE IF op[1] = "ExcludeLabelsDataset" THEN AllLabels \ op[2]
    ELSE {o \in AllLabels : classes[o + 1] \in op[2]}

Constructed == op[1] \in {"IncludeLabelsDataset", "IncludeClassesDataset",
                          "ExcludeLabelsDataset"}

----------------------------------------------------------------------------
(* C5 *)

\* C5 (as claimed): for an Include-Labels View with a non-empty label set S and
\* cap c >= 0, the kept-index list is the ascending list of the source indices
\* whose label is in S, cut to its first c entries when c is positive; len(view)
\* is the size of that list; and view[j] succeeds for every j in [0, len(view))
\* and returns the source item at kept[j].
\* Violated: __getitem__ raises NameError on every call.
C5_AccessThroughKept ==
    view # None =>
        /\ view[1].include_labels # {}
        /\ view[1].num_samples >= 0
           => view[1].new_to_old = Kept(view[1].include_labels, view[1].num_samples)
        /\ op = <<"__len__">> => ret = Some(Len(view[1].new_to_old))
        /\ (op[1] = "__getitem__" /\ op[2] < Len(view[1].new_to_old))
           => /\ err = NoError
              /\ ret = Some(Item(labels, view[1].new_to_old[op[2] + 1]))

\* Supporting fact for C5: the kept-index list and the length are as claimed.
C5_KeptAndLength ==
    view # None =>
        /\ view[1].include_labels # {}
        /\ view[1].num_samples >= 0
           => view[1].new_to_old = Kept(view[1].include_labels, view[1].num_samples)
        /\ op = <<"__len__">> => ret = Some(Len(view[1].new_to_old))

----------------------------------------------------------------------------
(* C6 *)

\* C6: an Exclude-Labels View built with exclude set E and cap c is equivalent
\* to the Include-Labels View built over the same source with the label set
\* {0..K-1} minus E and the same cap: both fail, or both are built with the
\* same kept-index list and the same length, which keeps exactly the samples
\* whose label is not in E.
C6_ExcludeIsIncludeOfComplement ==
    op[1] = "ExcludeLabelsDataset" =>
        LET E       == op[2]
            c       == op[3]
            include == IncludeLabelsInit(labels, AllLabels \ E, c)
        IN  /\ (view = None) = (include.view = None)
            /\ err = include.err
            /\ view # None =>
                  /\ view[1].new_to_old = include.view[1].new_to_old
                  /\ Len(view[1].new_to_old) = Len(include.view[1].new_to_old)
                  /\ c >= 0 => view[1].new_to_old = Kept(AllLabels \ E, c)
                  /\ \A i \in 1..Len(view[1].new_to_old) :
                        labels[view[1].new_to_old[i] + 1] \notin E

\* C6 witness: an Exclude-Labels View that drops some samples, keeps others
\* and is cut by its cap
C6_Witness ==
    /\ op[1] = "ExcludeLabelsDataset"
    /\ view # None
    /\ op[2] # {}
    /\ op[3] = 1
    /\ Len(view[1].new_to_old) = 1
    /\ Len(Matching(AllLabels \ op[2])) = 2
    /\ Len(labels) = 3

----------------------------------------------------------------------------
(* C9 *)

\* C9: when every class name passed is a class of the source, construction of
\* a label-subset view fails exactly when its effective include set is empty;
\* the three kinds of view then fail the same way (the same exception, raised
\* by IncludeLabelsDataset.__init__) and before the source is scanned; with a
\* non-empty effective include set the view is built, after one scan.
C9_EmptySelection ==
    (/\ Constructed
     /\ op[1] = "IncludeClassesDataset" => op[2] \subseteq Range(classes))
    => IF EffectiveInclude = {}
       THEN /\ view = None
            /\ err = Raise("AssertionError", "No labels are included in include_labels")
            /\ scans = 0
       ELSE /\ view # None
            /\ err = NoError
            /\ scans = 1

\* C9 witness: an Exclude-Labels View whose exclude set covers all K >= 2
\* labels of a non-empty source fails before any scan
C9_Witness ==
    /\ op[1] = "ExcludeLabelsDataset"
    /\ Len(classes) >= 2
    /\ AllLabels \subseteq op[2]
    /\ Len(labels) > 0
    /\ view = None
    /\ err.type = "AssertionError"
    /\ scans = 0

====
